---- MODULE Spec2Model ----
(***************************************************************************)
(* HaptiNavAI: the App router (App.tsx, HomeScreen.tsx), the Fast Mode     *)
(* capture pipeline (FastMode.tsx), the Scene Descriptor live session      *)
(* (SceneDescriptorMode.tsx) and the Maps navigation loop (MapsMode.tsx)   *)
(* as state machines.  Each React component is one machine: its useState   *)
(* values and useRef cells are the variables, every event handler, effect  *)
(* and promise continuation is an action.  The browser, the detector and   *)
(* the streaming endpoint are the environment: they decide when a promise  *)
(* settles, when a callback is delivered and when the audio clock          *)
(* advances.                                                               *)
(***************************************************************************)
EXTENDS Integers, Sequences, FiniteSets, TLC

\* ---------------------------------------------------------------- bounds
\* Messages delivered to onmessage in one session.
MaxMsgs == 2
\* Largest value of the output AudioContext's currentTime.
MaxClock == 2
\* The durations of the decoded audio buffers.
Durations == {1, 2}
\* Presses of the Start Navigation button.
MaxRuns == 2
\* Navigation requests that get past the guards of getNavigationInstruction.
MaxReqs == 2
\* Predictions one detection returns.
MaxPreds == 3
\* getUserMedia calls of Fast Mode's startCamera.
MaxStreams == 2
\* Presses of Fast Mode's capture button.
MaxCaptures == 2
\* Audio-process events and frame captures followed in one session.
MaxMedia == 2

NULL == "null"

Max(a, b) == IF a >= b THEN a ELSE b

\* ------------------------------------------------- Scene Descriptor state
VARIABLES
  mounted,          \* the SceneDescriptorMode component is mounted
  sessionState,     \* useState<SessionState>
  sceneError,       \* useState error message
  transcription,    \* useState transcription: the fragments appended, in order
  refs,             \* the six useRef cells that cleanup releases
  nextAudioStartTime, \* nextAudioStartTimeRef.current
  audioSources,     \* audioSourcesRef.current: ids of the sources in the set
  gum,              \* the getUserMedia promise of startCameraAndMic
  tracksLive,       \* the acquired stream's tracks have not been stopped
  conn,             \* the streaming connection, as the endpoint sees it
  errored,          \* the connection has reported an error
  closeRequested,   \* cleanup has queued session.close()
  clock,            \* ctx.currentTime of the output AudioContext
  nrecv,            \* messages delivered so far
  pending,          \* onmessage handlers suspended at await decodeAudioData
  sources,          \* every AudioBufferSourceNode created: id -> [at, dur, st]
  playLog,          \* history: source.start calls and handled interruptions
  released          \* history: what each cleanup call released, and its caller

\* The capture pipeline that onopen wires.
VARIABLES
  audioQueued,      \* audioprocess events queued for the script processor's handler
  framesEncoding,   \* frame captures waiting for canvas.toBlob's callback
  framesReading,    \* frame captures waiting for the FileReader's onloadend
  nmedia,           \* audioprocess events and interval ticks so far
  sent,             \* history: sendRealtimeInput({media}) calls
  dropped           \* history: capture callbacks that found no session to send to

captureVars == <<audioQueued, framesEncoding, framesReading, nmedia, sent, dropped>>

sceneVars == <<mounted, sessionState, sceneError, transcription, refs,
               nextAudioStartTime, audioSources, gum, tracksLive, conn, errored,
               closeRequested, clock, nrecv, pending, sources, playLog,
               released, captureVars>>

\* The state of the Maps component.
VARIABLES
  mapsMounted,        \* the MapsMode component is mounted
  destination,        \* useState destination
  isNavigating,       \* useState isNavigating
  isNavigatingRef,    \* isNavigatingRef.current
  instruction,        \* useState instruction: [text, req]
  currentLocation,    \* useState currentLocation (NULL: none yet)
  mapsError,          \* useState error
  isLoading,          \* useState isLoading
  locationPermission, \* useState locationPermission
  intervalRef,        \* intervalRef.current: a timer id, NoTimer when null
  watching,           \* locationWatcherId.current names an active watch
  oneShot,            \* a getCurrentPosition of the location effect is pending
  promptShot,         \* a getCurrentPosition of requestLocationPermission is pending
  promptGranted,      \* such a call has succeeded: the user allowed the prompt, and
                      \* the browser has reported no other permission state since
  permListener,       \* permissionStatus.onchange is installed
  videoSrc,           \* videoRef.current.srcObject: NULL, "live" or "stopped"
  camPending,         \* startCamera calls suspended at await getUserMedia
  timeouts,           \* pending 2-second timeouts of handleStartNavigation
  intervals,          \* live interval timers, each with the closure it calls
  encoding,           \* getNavigationInstruction calls suspended at toBlob / blobToBase64
  inflight,           \* generateContent calls awaiting their response
  utterance,          \* what speechSynthesis was last told to speak: [text, req]
  nreq,               \* getNavigationInstruction calls that passed the guards
  runs                \* Start Navigation presses that started a run

mapsVars == <<mapsMounted, destination, isNavigating, isNavigatingRef, instruction,
              currentLocation, mapsError, isLoading, locationPermission,
              intervalRef, watching, oneShot, promptShot, promptGranted,
              permListener, videoSrc,
              camPending, timeouts, intervals, encoding, inflight, utterance, nreq,
              runs>>

\* The state of the Fast Mode component.
VARIABLES
  fastMounted,      \* the FastMode component is mounted
  capturedImage,    \* useState capturedImage is set (the frozen frame is shown)
  fastError,        \* useState error
  boxes,            \* useState boxes: the labels of the boxes, in order
  model,            \* useState model is set
  isLoadingModel,   \* useState isLoadingModel
  isDetecting,      \* useState isDetecting
  loadPending,      \* cocoSsd.load() has not settled
  fastCamPending,   \* startCamera calls suspended at await getUserMedia
  strayCams,        \* such calls of component instances that were unmounted since
  srcObject,        \* videoRef.current.srcObject: a stream id, NoStream when unset
  liveStreams,      \* acquired streams whose tracks have not been stopped
  nstreams,         \* streams acquired so far
  detections,       \* model.detect calls that have not settled
  strayDetections,  \* such calls of component instances that were unmounted since
  ncaptures,        \* captures started so far
  fastUtterance     \* what speechSynthesis is speaking (<<>>: nothing)

fastVars == <<fastMounted, capturedImage, fastError, boxes, model, isLoadingModel,
              isDetecting, loadPending, fastCamPending, strayCams, srcObject,
              liveStreams, nstreams, detections, strayDetections, ncaptures,
              fastUtterance>>

\* The state of the App router.
VARIABLES
  mode              \* useState<AppMode>

\* enum AppMode
AppModes == {"HOME", "FAST", "SCENE_DESCRIPTOR", "MAPS"}

\* A back button that opens Fast Mode.
modeAfterBackIsFast == "FAST"

\* setMode(AppMode.HOME) of the back buttons.
modeAfterBack == "HOME"

SessionStates == {"idle", "connecting", "active", "error", "stopped"}

RefNames == {"frameIntervalRef", "mediaStreamRef", "scriptProcessorRef",
             "inputAudioContextRef", "outputAudioContextRef", "sessionRef"}

\* A setState call of an unmounted component is dropped by React.
SetState(old, new) == IF mounted THEN new ELSE old

\* ------------------------------------------------------------ cleanup
\* The release operations one cleanup call performs on the cells r: each
\* guarded block runs iff its cell is set (an audio context: set and not closed).
cleanupReleases(r) ==
  {n \in RefNames : r[n] # NULL /\ r[n] # "closed"}

\* A cleanup that closes the session but keeps its handle.
cleanupRefsKeepsSession(r) ==
  [n \in RefNames |->
     IF n \in cleanupReleases(r) /\ n # "sessionRef" THEN NULL ELSE r[n]]

\* The cells after cleanup: every block that ran stored null in its cell.
cleanupRefs(r) ==
  [n \in RefNames |-> IF n \in cleanupReleases(r) THEN NULL ELSE r[n]]

\* k consecutive cleanup() calls (k = 2: the back button, stopSession's call
\* followed by the unmount effect's), each logged with its caller.
cleanup(callers) ==
  LET r1 == cleanupRefs(refs)
      r2 == cleanupRefs(r1)
      two == Len(callers) = 2
      ops1 == cleanupReleases(refs)
      ops2 == IF two THEN cleanupReleases(r1) ELSE {}
  IN /\ refs' = IF two THEN r2 ELSE r1
     /\ tracksLive' = IF "mediaStreamRef" \in ops1 \cup ops2 THEN FALSE ELSE tracksLive
     /\ closeRequested' = (closeRequested \/ "sessionRef" \in ops1 \cup ops2)
     /\ released' = released \o
          <<[by |-> callers[1], ops |-> ops1]>> \o
          (IF two THEN <<[by |-> callers[2], ops |-> ops2]>> ELSE <<>>)

\* ------------------------------------------------- startCameraAndMic
\* getUserMedia resolved: the stream is stored (also after an unmount).
startCameraAndMicResolved ==
  /\ gum = "pending"
  /\ gum' = "resolved"
  /\ refs' = [refs EXCEPT !.mediaStreamRef = "stream"]
  /\ tracksLive' = TRUE
  /\ UNCHANGED <<mounted, sessionState, sceneError, transcription,
                 nextAudioStartTime, audioSources, conn, errored, closeRequested,
                 clock, nrecv, pending, sources, playLog, released>>
  /\ UNCHANGED <<captureVars, mapsVars, fastVars, mode>>

\* getUserMedia rejected: the catch block.
startCameraAndMicRejected ==
  /\ gum = "pending"
  /\ gum' = "rejected"
  /\ sceneError' = SetState(sceneError, "Could not access camera or microphone. Please check permissions.")
  /\ sessionState' = SetState(sessionState, "error")
  /\ UNCHANGED <<mounted, transcription, refs, nextAudioStartTime, audioSources,
                 tracksLive, conn, errored, closeRequested, clock, nrecv, pending,
                 sources, playLog, released>>
  /\ UNCHANGED <<captureVars, mapsVars, fastVars, mode>>

\* ------------------------------------------------------- startSession
\* Where the try block throws: nowhere, in a constructor before any cell is
\* assigned (GoogleGenAI, the input AudioContext), in the output AudioContext's,
\* or in ai.live.connect before it returns its promise.
ThrowPoints == {"none", "ctor", "outputCtx", "connect"}

\* A mic button that can be pressed in every state.
micButtonAlwaysEnabled == TRUE

\* The mic button is rendered while sessionState # 'active' and disabled while
\* 'connecting'.
micButtonEnabled == sessionState # "active" /\ sessionState # "connecting"

startSession(throwAt) ==
  /\ mounted
  /\ micButtonEnabled
  /\ IF refs.mediaStreamRef = NULL
     THEN /\ sceneError' = "Media stream not available."
          /\ sessionState' = "error"
          /\ UNCHANGED <<transcription, refs, nextAudioStartTime, conn, errored,
                         closeRequested, clock>>
     ELSE /\ transcription' = <<>>
          /\ CASE throwAt = "ctor" ->
                    /\ sceneError' = "Failed to initialize AI session."
                    /\ sessionState' = "error"
                    /\ UNCHANGED <<refs, nextAudioStartTime, conn, errored,
                                   closeRequested, clock>>
               [] throwAt = "outputCtx" ->
                    /\ sceneError' = "Failed to initialize AI session."
                    /\ sessionState' = "error"
                    /\ refs' = [refs EXCEPT !.inputAudioContextRef = "running"]
                    /\ UNCHANGED <<nextAudioStartTime, conn, errored,
                                   closeRequested, clock>>
               [] throwAt = "connect" ->
                    /\ sceneError' = "Failed to initialize AI session."
                    /\ sessionState' = "error"
                    /\ refs' = [refs EXCEPT !.inputAudioContextRef = "running",
                                            !.outputAudioContextRef = "running"]
                    /\ nextAudioStartTime' = 0
                    /\ clock' = 0
                    /\ UNCHANGED <<conn, errored, closeRequested>>
               [] OTHER ->
                    /\ sessionState' = "connecting"
                    /\ refs' = [refs EXCEPT !.inputAudioContextRef = "running",
                                            !.outputAudioContextRef = "running",
                                            !.sessionRef = "session"]
                    /\ nextAudioStartTime' = 0
                    /\ clock' = 0
                    /\ conn' = "connecting"
                    /\ errored' = FALSE
                    /\ closeRequested' = FALSE
                    /\ UNCHANGED sceneError
  /\ UNCHANGED <<mounted, audioSources, gum, tracksLive, nrecv, pending, sources,
                 playLog, released>>
  /\ UNCHANGED <<captureVars, mapsVars, fastVars, mode>>

\* ------------------------------------------------------------- onopen
\* An onopen that wires the pipeline without looking at the cells.
onopenWiresNoGuard == TRUE

\* The guard of onopen's first line: both cells still set.
onopenWires ==
  refs.inputAudioContextRef # NULL /\ refs.mediaStreamRef # NULL

onopen ==
  /\ conn = "connecting"
  /\ ~errored
  /\ conn' = "open"
  /\ IF onopenWires
     THEN /\ refs' = [refs EXCEPT !.scriptProcessorRef = "connected",
                                  !.frameIntervalRef = "timer"]
          /\ sessionState' = SetState(sessionState, "active")
     ELSE UNCHANGED <<refs, sessionState>>
  /\ UNCHANGED <<mounted, sceneError, transcription, nextAudioStartTime,
                 audioSources, gum, tracksLive, errored, closeRequested, clock,
                 nrecv, pending, sources, playLog, released>>
  /\ UNCHANGED <<captureVars, mapsVars, fastVars, mode>>

\* ------------------------------------------------- the capture pipeline
\* A handler that sends whether or not a session is held.
sessionHeldAlways == TRUE

\* sessionRef.current?.then(...): the send is queued only while the cell
\* holds a session; the handlers exist from onopen on, when it has resolved.
sessionHeld == refs.sessionRef # NULL

\* The audio thread queues an audioprocess event for the connected node.
audioProcessQueued ==
  /\ refs.scriptProcessorRef = "connected"
  /\ nmedia < MaxMedia
  /\ nmedia' = nmedia + 1
  /\ audioQueued' = audioQueued + 1
  /\ UNCHANGED <<framesEncoding, framesReading, sent, dropped>>
  /\ UNCHANGED <<mounted, sessionState, sceneError, transcription, refs,
                 nextAudioStartTime, audioSources, gum, tracksLive, conn, errored,
                 closeRequested, clock, nrecv, pending, sources, playLog, released>>
  /\ UNCHANGED <<mapsVars, fastVars, mode>>

\* onaudioprocess: a queued event is dispatched, also after the node has
\* been disconnected.
onaudioprocess ==
  /\ audioQueued > 0
  /\ audioQueued' = audioQueued - 1
  /\ IF sessionHeld
     THEN sent' = sent + 1 /\ UNCHANGED dropped
     ELSE dropped' = dropped + 1 /\ UNCHANGED sent
  /\ UNCHANGED <<framesEncoding, framesReading, nmedia>>
  /\ UNCHANGED <<mounted, sessionState, sceneError, transcription, refs,
                 nextAudioStartTime, audioSources, gum, tracksLive, conn, errored,
                 closeRequested, clock, nrecv, pending, sources, playLog, released>>
  /\ UNCHANGED <<mapsVars, fastVars, mode>>

\* A tick of the frame interval.  The video and canvas refs are set while
\* the component is mounted; context: getContext('2d') returned a context.
frameTick(context) ==
  /\ refs.frameIntervalRef = "timer"
  /\ nmedia < MaxMedia
  /\ nmedia' = nmedia + 1
  /\ framesEncoding' = IF mounted /\ context THEN framesEncoding + 1 ELSE framesEncoding
  /\ UNCHANGED <<audioQueued, framesReading, sent, dropped>>
  /\ UNCHANGED <<mounted, sessionState, sceneError, transcription, refs,
                 nextAudioStartTime, audioSources, gum, tracksLive, conn, errored,
                 closeRequested, clock, nrecv, pending, sources, playLog, released>>
  /\ UNCHANGED <<mapsVars, fastVars, mode>>

\* The toBlob callback: with a blob, the FileReader starts reading it.
blobReady(blob) ==
  /\ framesEncoding > 0
  /\ framesEncoding' = framesEncoding - 1
  /\ framesReading' = IF blob THEN framesReading + 1 ELSE framesReading
  /\ UNCHANGED <<audioQueued, nmedia, sent, dropped>>
  /\ UNCHANGED <<mounted, sessionState, sceneError, transcription, refs,
                 nextAudioStartTime, audioSources, gum, tracksLive, conn, errored,
                 closeRequested, clock, nrecv, pending, sources, playLog, released>>
  /\ UNCHANGED <<mapsVars, fastVars, mode>>

\* reader.onloadend
readerLoaded ==
  /\ framesReading > 0
  /\ framesReading' = framesReading - 1
  /\ IF sessionHeld
     THEN sent' = sent + 1 /\ UNCHANGED dropped
     ELSE dropped' = dropped + 1 /\ UNCHANGED sent
  /\ UNCHANGED <<audioQueued, framesEncoding, nmedia>>
  /\ UNCHANGED <<mounted, sessionState, sceneError, transcription, refs,
                 nextAudioStartTime, audioSources, gum, tracksLive, conn, errored,
                 closeRequested, clock, nrecv, pending, sources, playLog, released>>
  /\ UNCHANGED <<mapsVars, fastVars, mode>>

\* ---------------------------------------------------------- onmessage
\* A server message: an output-transcription fragment or none, an audio
\* fragment of duration dur (0: none), the interrupted flag.
Messages == [text : BOOLEAN, dur : {0} \cup Durations, interrupted : BOOLEAN]

\* The messages that carry no audio fragment.
SilentMessages == {m \in Messages : m.dur = 0}

\* The messages that act on playback: an audio fragment, the flag, or both.
PlaybackMessages == {m \in Messages : ~m.text /\ (m.dur > 0 \/ m.interrupted)}

\* An interruption that stops the sources but keeps the scheduling clock.
interruptedNextStartKeeps(next) == next

\* The value nextAudioStartTimeRef is reset to by an interruption.
interruptedNextStart(next) == 0

\* The interruption block applied to the set srcs and the nodes nodes:
\* every source of the set is stopped, the set cleared, the clock reset.
interruption(srcs, nodes, next, log, msg) ==
  [audioSources |-> {},
   sources |-> [i \in DOMAIN nodes |->
                  IF i \in srcs THEN [nodes[i] EXCEPT !.st = "stopped"] ELSE nodes[i]],
   nextAudioStartTime |-> interruptedNextStart(next),
   playLog |-> Append(log, [kind |-> "interrupt", id |-> msg, at |-> 0, dur |-> 0,
                            clk |-> clock,
                            next |-> interruptedNextStart(next)])]

\* Math.max(nextAudioStartTimeRef.current, ctx.currentTime)
scheduleBase(next, now) == Max(next, now)

\* decodeAudioData is awaited: its promise settles at some later point, and the
\* promises of several pending handlers settle in any order.
decodeSettled(h) == h \in pending

\* A fragment put in front of the transcript.
prependFragment(prev, text) == <<text>> \o prev

\* setTranscription(prev => prev + text)
appendFragment(prev, text) == Append(prev, text)

\* onmessage up to its await (or to its end when the message holds no audio).
onmessage(m) ==
  /\ conn = "open"
  /\ ~closeRequested
  /\ ~errored
  /\ nrecv < MaxMsgs
  /\ nrecv' = nrecv + 1
  /\ transcription' = IF m.text
                      THEN SetState(transcription, appendFragment(transcription, nrecv + 1))
                      ELSE transcription
  /\ IF m.dur > 0 /\ refs.outputAudioContextRef # NULL
     THEN /\ nextAudioStartTime' = scheduleBase(nextAudioStartTime, clock)
          /\ pending' = pending \cup {[id |-> nrecv + 1, dur |-> m.dur,
                                       interrupted |-> m.interrupted]}
          /\ UNCHANGED <<audioSources, sources, playLog>>
     ELSE IF m.interrupted
     THEN LET r == interruption(audioSources, sources, nextAudioStartTime, playLog, nrecv + 1)
          IN /\ audioSources' = r.audioSources
             /\ sources' = r.sources
             /\ nextAudioStartTime' = r.nextAudioStartTime
             /\ playLog' = r.playLog
             /\ UNCHANGED pending
     ELSE UNCHANGED <<nextAudioStartTime, pending, audioSources, sources, playLog>>
  /\ UNCHANGED <<mounted, sessionState, sceneError, refs, gum, tracksLive, conn,
                 errored, closeRequested, clock, released>>
  /\ UNCHANGED <<captureVars, mapsVars, fastVars, mode>>

\* A scheduling clock that a start leaves where it was.
nextAfterStartNoAdvance(at, dur) == at

\* nextAudioStartTimeRef.current += audioBuffer.duration
nextAfterStart(at, dur) == at + dur

\* Which suspended handler may run next: any whose decode has settled.
resumable(h) == decodeSettled(h)

\* onmessage after its await: the source is created, started at the scheduling
\* clock, the clock advanced by the buffer's duration, the source added to the
\* set; then the interruption block, when the message carried the flag.
onmessageResumed(h) ==
  /\ resumable(h)
  /\ pending' = pending \ {h}
  /\ LET at == nextAudioStartTime
         next1 == nextAfterStart(at, h.dur)
         srcs1 == audioSources \cup {h.id}
         nodes1 == sources @@ (h.id :> [at |-> at, dur |-> h.dur, st |-> "playing",
                                        ends |-> Max(at, clock) + h.dur])
         log1 == Append(playLog, [kind |-> "start", id |-> h.id, at |-> at,
                                  dur |-> h.dur, clk |-> clock, next |-> next1])
     IN IF h.interrupted
        THEN LET r == interruption(srcs1, nodes1, next1, log1, h.id)
             IN /\ audioSources' = r.audioSources
                /\ sources' = r.sources
                /\ nextAudioStartTime' = r.nextAudioStartTime
                /\ playLog' = r.playLog
        ELSE /\ audioSources' = srcs1
             /\ sources' = nodes1
             /\ nextAudioStartTime' = next1
             /\ playLog' = log1
  /\ UNCHANGED <<mounted, sessionState, sceneError, transcription, refs, gum,
                 tracksLive, conn, errored, closeRequested, clock, nrecv,
                 released>>
  /\ UNCHANGED <<captureVars, mapsVars, fastVars, mode>>

\* The 'ended' listener of a source whose playback has run to its end.
sourceEnded(i) ==
  /\ i \in DOMAIN sources
  /\ sources[i].st = "playing"
  /\ clock >= sources[i].ends
  /\ sources' = [sources EXCEPT ![i].st = "ended"]
  /\ audioSources' = audioSources \ {i}
  /\ UNCHANGED <<mounted, sessionState, sceneError, transcription, refs,
                 nextAudioStartTime, gum, tracksLive, conn, errored,
                 closeRequested, clock, nrecv, pending, playLog, released>>
  /\ UNCHANGED <<captureVars, mapsVars, fastVars, mode>>

\* The output AudioContext's currentTime advances while the context runs.
clockAdvances ==
  /\ refs.outputAudioContextRef = "running"
  /\ clock < MaxClock
  /\ clock' = clock + 1
  /\ UNCHANGED <<mounted, sessionState, sceneError, transcription, refs,
                 nextAudioStartTime, audioSources, gum, tracksLive, conn, errored,
                 closeRequested, nrecv, pending, sources, playLog, released>>
  /\ UNCHANGED <<captureVars, mapsVars, fastVars, mode>>

\* The promise of ai.live.connect rejects after startSession has returned.
\* It is stored without being awaited and the only handler attached to it
\* (line 193) has no rejection branch: no statement of the component runs.
connectRejected ==
  /\ conn = "connecting"
  /\ ~errored
  /\ conn' = "rejected"
  /\ UNCHANGED <<mounted, sessionState, sceneError, transcription, refs,
                 nextAudioStartTime, audioSources, gum, tracksLive, errored,
                 closeRequested, clock, nrecv, pending, sources, playLog,
                 released>>
  /\ UNCHANGED <<captureVars, mapsVars, fastVars, mode>>

\* ---------------------------------------------------- onerror, onclose
onerror ==
  /\ conn \in {"connecting", "open"}
  /\ ~errored
  /\ errored' = TRUE
  /\ sceneError' = SetState(sceneError, "An error occurred with the connection.")
  /\ sessionState' = SetState(sessionState, "error")
  /\ cleanup(<<"onerror">>)
  /\ UNCHANGED <<mounted, transcription, nextAudioStartTime, audioSources, gum,
                 conn, clock, nrecv, pending, sources, playLog>>
  /\ UNCHANGED <<captureVars, mapsVars, fastVars, mode>>

\* The connection's close event: after the endpoint or session.close() closed
\* an open connection, or after a connection attempt failed with an error.
onclose ==
  /\ conn = "open" \/ (conn = "connecting" /\ errored)
  /\ conn' = "closed"
  /\ sessionState' = SetState(sessionState, "stopped")
  /\ cleanup(<<"onclose">>)
  /\ UNCHANGED <<mounted, sceneError, transcription, nextAudioStartTime,
                 audioSources, gum, errored, clock, nrecv, pending, sources,
                 playLog>>
  /\ UNCHANGED <<captureVars, mapsVars, fastVars, mode>>

\* -------------------------------------------------- stopSession, back
\* The stop button is rendered while sessionState = 'active'.
stopSession ==
  /\ mounted
  /\ sessionState = "active"
  /\ cleanup(<<"stopSession">>)
  /\ sessionState' = "stopped"
  /\ UNCHANGED <<mounted, sceneError, transcription, nextAudioStartTime,
                 audioSources, gum, conn, errored, clock, nrecv, pending, sources,
                 playLog>>
  /\ UNCHANGED <<captureVars, mapsVars, fastVars, mode>>

\* The back button: stopSession(), then setMode(HOME) unmounts the component,
\* whose effect cleanup calls cleanup() again.  The 'stopped' update is queued
\* on a component that the same commit removes, so it is never applied.
sceneBack ==
  /\ mounted
  /\ mounted' = FALSE
  /\ cleanup(<<"stopSession", "unmount">>)
  /\ UNCHANGED <<sessionState, sceneError, transcription, nextAudioStartTime,
                 audioSources, gum, conn, errored, clock, nrecv, pending, sources,
                 playLog>>
  /\ mode' = modeAfterBack
  /\ UNCHANGED <<captureVars, mapsVars, fastVars>>

\* --------------------------------------------------------------- Scene
\* Before the mode is entered.
InitScene ==
  /\ mounted = FALSE
  /\ sessionState = "idle"
  /\ sceneError = NULL
  /\ transcription = <<>>
  /\ refs = [n \in RefNames |-> NULL]
  /\ nextAudioStartTime = 0
  /\ audioSources = {}
  /\ gum = "none"
  /\ tracksLive = FALSE
  /\ conn = "none"
  /\ errored = FALSE
  /\ closeRequested = FALSE
  /\ clock = 0
  /\ nrecv = 0
  /\ pending = {}
  /\ sources = <<>>
  /\ playLog = <<>>
  /\ released = <<>>
  /\ audioQueued = 0
  /\ framesEncoding = 0
  /\ framesReading = 0
  /\ nmedia = 0
  /\ sent = 0
  /\ dropped = 0

\* ======================================================== Maps navigation
\* The values the destination input takes: empty, blank, two places.
Destinations == {"", " ", "A", "B"}
\* The positions the device reports.
Locations == {"L1", "L2"}
PermissionStates == {"granted", "prompt", "denied"}
NoTimer == 0

\* A text shown or spoken; req tells the responses of different requests (and
\* the announcements of different runs) apart.
Text(t) == [text |-> t, req |-> 0]
Silence == Text(NULL)

\* handleStopNavigation calls so far: runs follow one another, each ended by
\* a stop before the next starts.
stops == IF isNavigating THEN runs - 1 ELSE runs

\* A setState call of an unmounted component is dropped by React.
MapsSet(old, new) == IF mapsMounted THEN new ELSE old

\* A trim that removes nothing.
trimNothing(d) == d

\* destination.trim(): the blank strings trim to the empty one.
trim(d) == IF d = " " THEN "" ELSE d

\* The render returns the navigation screen (the last return of the
\* component) unless it is loading, checking, prompting or denied.
navigationScreen(m, loading, perm) ==
  m /\ ~loading /\ perm = "granted"

\* The <video> and <canvas> elements exist while the navigation screen is
\* rendered with isNavigating.
videoRefSet ==
  navigationScreen(mapsMounted, isLoading, locationPermission) /\ isNavigating

\* After a render: a video element that is no longer rendered is gone, its
\* srcObject with it.  Written last in an action: it reads the new state.
rendered(src) ==
  videoSrc' = IF navigationScreen(mapsMounted', isLoading', locationPermission')
                   /\ isNavigating'
              THEN src ELSE NULL

\* speak(text): cancel, then speak the new utterance.
speak(text) == utterance' = text

\* cleanup(): the timer intervalRef names is cleared, the tracks of the video
\* element's stream are stopped, speech is cancelled.
mapsCleanup ==
  /\ intervalRef' = NoTimer
  /\ intervals' = {iv \in intervals : iv.id # intervalRef}
  /\ utterance' = Silence

\* The video element's stream after cleanup.
cleanupVideoSrc == IF videoRefSet /\ videoSrc # NULL THEN "stopped" ELSE videoSrc

\* ---------------------------------------------- permission and location
\* A location effect that requests the position whatever the permission.
locationEffectAlwaysRequests(perm) ==
  /\ isLoading' = MapsSet(isLoading, TRUE)
  /\ oneShot' = TRUE
  /\ watching' = TRUE

\* The location effect, run after locationPermission became perm: its old
\* cleanup clears the watch; granted starts loading, a one-shot request and
\* a watch; anything else ends loading.
locationEffect(perm) ==
  IF perm = "granted"
  THEN /\ isLoading' = MapsSet(isLoading, TRUE)
       /\ oneShot' = TRUE
       /\ watching' = TRUE
  ELSE /\ isLoading' = MapsSet(isLoading, FALSE)
       /\ watching' = FALSE
       /\ UNCHANGED oneShot

\* No message for a browser without geolocation.
unsupportedErrorNone == NULL

\* setError of checkLocationPermission when navigator.geolocation is missing.
unsupportedError == "Geolocation is not supported by your browser."

\* checkLocationPermission when navigator.geolocation is missing.
geolocationUnsupported ==
  /\ mapsMounted
  /\ locationPermission = "checking"
  /\ mapsError' = unsupportedError
  /\ locationPermission' = "denied"
  /\ locationEffect("denied")
  /\ UNCHANGED <<mapsMounted, destination, isNavigating, isNavigatingRef,
                 instruction, currentLocation, intervalRef, permListener,
                 camPending, timeouts, intervals, encoding, inflight,
                 utterance, nreq, runs>>
  /\ rendered(videoSrc)
  /\ UNCHANGED <<promptShot, promptGranted>>
  /\ UNCHANGED <<sceneVars, fastVars, mode>>

\* navigator.permissions.query resolved with state st.
permissionQueried(st) ==
  /\ mapsMounted
  /\ locationPermission = "checking"
  /\ ~permListener
  /\ locationPermission' = st
  /\ permListener' = TRUE
  /\ locationEffect(st)
  /\ UNCHANGED <<mapsMounted, destination, isNavigating, isNavigatingRef,
                 instruction, currentLocation, mapsError, intervalRef,
                 camPending, timeouts, intervals, encoding, inflight,
                 utterance, nreq, runs>>
  /\ rendered(videoSrc)
  /\ UNCHANGED <<promptShot, promptGranted>>
  /\ UNCHANGED <<sceneVars, fastVars, mode>>

\* navigator.permissions.query rejected: the catch block.
permissionQueryFailed ==
  /\ mapsMounted
  /\ locationPermission = "checking"
  /\ ~permListener
  /\ locationPermission' = "prompt"
  /\ locationEffect("prompt")
  /\ UNCHANGED <<mapsMounted, destination, isNavigating, isNavigatingRef,
                 instruction, currentLocation, mapsError, intervalRef,
                 permListener, camPending, timeouts, intervals, encoding,
                 inflight, utterance, nreq, runs>>
  /\ rendered(videoSrc)
  /\ UNCHANGED <<promptShot, promptGranted>>
  /\ UNCHANGED <<sceneVars, fastVars, mode>>

\* permissionStatus.onchange: the browser's permission state became st.
permissionChanged(st) ==
  /\ mapsMounted
  /\ permListener
  /\ st # locationPermission
  /\ locationPermission' = st
  /\ locationEffect(st)
  /\ UNCHANGED <<mapsMounted, destination, isNavigating, isNavigatingRef,
                 instruction, currentLocation, mapsError, intervalRef,
                 permListener, camPending, timeouts, intervals, encoding,
                 inflight, utterance, nreq, runs>>
  /\ rendered(videoSrc)
  /\ promptGranted' = (promptGranted /\ st = "granted")
  /\ UNCHANGED promptShot
  /\ UNCHANGED <<sceneVars, fastVars, mode>>

\* successCallback of getCurrentPosition / watchPosition.
successCallback(loc) ==
  /\ watching \/ oneShot
  /\ oneShot' = (oneShot /\ watching)
  /\ currentLocation' = MapsSet(currentLocation, loc)
  /\ isLoading' = MapsSet(isLoading, FALSE)
  /\ mapsError' = MapsSet(mapsError, NULL)
  /\ UNCHANGED <<mapsMounted, destination, isNavigating, isNavigatingRef,
                 instruction, locationPermission, intervalRef, watching,
                 permListener, camPending, timeouts, intervals, encoding,
                 inflight, utterance, nreq, runs>>
  /\ rendered(videoSrc)
  /\ UNCHANGED <<promptShot, promptGranted>>
  /\ UNCHANGED <<sceneVars, fastVars, mode>>

\* errorCallback of getCurrentPosition / watchPosition.
errorCallback ==
  /\ watching \/ oneShot
  /\ oneShot' = (oneShot /\ watching)
  /\ mapsError' = MapsSet(mapsError, "Unable to retrieve your location. Please check device settings.")
  /\ isLoading' = MapsSet(isLoading, FALSE)
  /\ UNCHANGED <<mapsMounted, destination, isNavigating, isNavigatingRef,
                 instruction, currentLocation, locationPermission, intervalRef,
                 watching, permListener, camPending, timeouts, intervals,
                 encoding, inflight, utterance, nreq, runs>>
  /\ rendered(videoSrc)
  /\ UNCHANGED <<promptShot, promptGranted>>
  /\ UNCHANGED <<sceneVars, fastVars, mode>>

\* The Enable Location button of the prompt screen: getCurrentPosition.
requestLocationPermission ==
  /\ mapsMounted
  /\ ~isLoading
  /\ locationPermission = "prompt"
  /\ promptShot' = TRUE
  /\ UNCHANGED promptGranted
  /\ UNCHANGED <<mapsMounted, destination, isNavigating, isNavigatingRef,
                 instruction, currentLocation, mapsError, isLoading,
                 locationPermission, intervalRef, watching, oneShot,
                 permListener, videoSrc, camPending, timeouts, intervals,
                 encoding, inflight, utterance, nreq, runs>>
  /\ UNCHANGED <<sceneVars, fastVars, mode>>

\* Its success callback is empty; its error callback sets a message
\* (denied: err.code === err.PERMISSION_DENIED).
promptSettled(outcome) ==
  /\ promptShot
  /\ promptShot' = FALSE
  /\ promptGranted' = (promptGranted \/ outcome = "success")
  /\ mapsError' =
       CASE outcome = "success" -> mapsError
         [] outcome = "denied" ->
              MapsSet(mapsError, "Location permission denied. Please enable it in your browser settings.")
         [] outcome = "failed" -> MapsSet(mapsError, "Unable to retrieve your location.")
  /\ UNCHANGED <<mapsMounted, destination, isNavigating, isNavigatingRef,
                 instruction, currentLocation, isLoading, locationPermission,
                 intervalRef, watching, oneShot, permListener, videoSrc,
                 camPending, timeouts, intervals, encoding, inflight,
                 utterance, nreq, runs>>
  /\ UNCHANGED <<sceneVars, fastVars, mode>>

\* ------------------------------------------------------- the input
\* The destination input and the Start button take pointer events while the
\* navigation screen is rendered without isNavigating.
startPanelShown ==
  navigationScreen(mapsMounted, isLoading, locationPermission) /\ ~isNavigating

setDestination(d) ==
  /\ startPanelShown
  /\ d # destination
  /\ destination' = d
  /\ UNCHANGED <<mapsMounted, isNavigating, isNavigatingRef, instruction,
                 currentLocation, mapsError, isLoading, locationPermission,
                 intervalRef, watching, oneShot, permListener, videoSrc,
                 camPending, timeouts, intervals, encoding, inflight,
                 utterance, nreq, runs>>
  /\ UNCHANGED <<promptShot, promptGranted>>
  /\ UNCHANGED <<sceneVars, fastVars, mode>>

\* ---------------------------------------------- handleStartNavigation
\* The closure a render creates: getNavigationInstruction reads destination
\* and currentLocation as they were in the render whose handler was clicked.
closure ==
  [run |-> runs + 1, loc |-> currentLocation, dest |-> destination]

\* handleStartNavigation up to await startCamera().  The button is disabled
\* while destination is empty or no location is known.
handleStartNavigation ==
  /\ startPanelShown
  /\ destination # ""
  /\ currentLocation # NULL
  /\ runs < MaxRuns
  /\ IF trim(destination) = "" \/ currentLocation = NULL
     THEN /\ mapsError' = "Please enter a destination and enable location."
          /\ UNCHANGED <<isNavigating, isNavigatingRef, camPending, runs>>
     ELSE /\ mapsError' = NULL
          /\ isNavigating' = TRUE
          /\ isNavigatingRef' = TRUE
          /\ camPending' = camPending \cup {closure}
          /\ runs' = runs + 1
  /\ UNCHANGED <<mapsMounted, destination, instruction, currentLocation,
                 isLoading, locationPermission, intervalRef, watching, oneShot,
                 permListener, timeouts, intervals, encoding, inflight, utterance, nreq>>
  /\ rendered(videoSrc)
  /\ UNCHANGED <<promptShot, promptGranted>>
  /\ UNCHANGED <<sceneVars, fastVars, mode>>

\* startCamera's getUserMedia settled (ok: resolved, the stream attached when
\* the video element exists; otherwise the catch block), then the rest of
\* handleStartNavigation: the announcement and the 2-second timeout.
startCameraSettled(c, ok) ==
  /\ c \in camPending
  /\ camPending' = camPending \ {c}
  /\ mapsError' = IF ok THEN mapsError
                  ELSE MapsSet(mapsError, "Could not access camera. Please check permissions.")
  /\ instruction' = MapsSet(instruction, Text("Starting navigation..."))
  /\ speak([text |-> "Starting navigation...", req |-> c.run])
  /\ timeouts' = timeouts \cup {c}
  /\ UNCHANGED <<mapsMounted, destination, isNavigating, isNavigatingRef,
                 currentLocation, isLoading, locationPermission, intervalRef,
                 watching, oneShot, permListener, intervals, encoding, inflight, nreq, runs>>
  /\ rendered(IF ok /\ videoRefSet THEN "live" ELSE videoSrc)
  /\ UNCHANGED <<promptShot, promptGranted>>
  /\ UNCHANGED <<sceneVars, fastVars, mode>>

\* ------------------------------------------- getNavigationInstruction
\* The guards of its first lines: the closure's location, the video and
\* canvas elements, a video that has frames (readyState >= 2).
instructionGuardsPass(c) ==
  /\ c.loc # NULL
  /\ videoRefSet
  /\ videoSrc = "live"

\* The call up to its first await (canvas.toBlob), when the guards pass.
captureFrame(c, via) ==
  IF instructionGuardsPass(c) /\ nreq < MaxReqs
  THEN /\ nreq' = nreq + 1
       /\ encoding' = encoding \cup
            {[id |-> nreq + 1, run |-> c.run, loc |-> c.loc, dest |-> c.dest,
              via |-> via]}
  ELSE UNCHANGED <<nreq, encoding>>

\* The 2-second timeout: the first call, then setInterval, its id stored in
\* intervalRef.
timeoutFires(c) ==
  /\ c \in timeouts
  /\ timeouts' = timeouts \ {c}
  /\ captureFrame(c, "timeout")
  /\ intervals' = intervals \cup {[id |-> c.run, c |-> c]}
  /\ intervalRef' = c.run
  /\ UNCHANGED <<mapsMounted, destination, isNavigating, isNavigatingRef,
                 instruction, currentLocation, mapsError, isLoading,
                 locationPermission, watching, oneShot, permListener, videoSrc,
                 camPending, inflight, utterance, runs>>
  /\ UNCHANGED <<promptShot, promptGranted>>
  /\ UNCHANGED <<sceneVars, fastVars, mode>>

\* One tick of a live interval timer, every 8 seconds.
intervalTick(iv) ==
  /\ iv \in intervals
  /\ instructionGuardsPass(iv.c)
  /\ nreq < MaxReqs
  /\ captureFrame(iv.c, "interval")
  /\ UNCHANGED <<mapsMounted, destination, isNavigating, isNavigatingRef,
                 instruction, currentLocation, mapsError, isLoading,
                 locationPermission, intervalRef, watching, oneShot,
                 permListener, videoSrc, camPending, timeouts, intervals,
                 inflight, utterance, runs>>
  /\ UNCHANGED <<promptShot, promptGranted>>
  /\ UNCHANGED <<sceneVars, fastVars, mode>>

\* The coordinates put in the prompt and in retrievalConfig.latLng: the
\* closure's currentLocation.
requestLocation(e) == e.loc

\* After toBlob and blobToBase64: "Thinking..." is shown and generateContent
\* is called with the frame, the coordinates and the destination.
frameEncoded(e) ==
  /\ e \in encoding
  /\ encoding' = encoding \ {e}
  /\ instruction' = MapsSet(instruction, Text("Thinking..."))
  /\ inflight' = inflight \cup
       {[id |-> e.id, run |-> e.run, via |-> e.via, stopsAt |-> stops,
         loc |-> requestLocation(e), dest |-> e.dest,
         latest |-> currentLocation]}
  /\ UNCHANGED <<mapsMounted, destination, isNavigating, isNavigatingRef,
                 currentLocation, mapsError, isLoading, locationPermission,
                 intervalRef, watching, oneShot, permListener, videoSrc,
                 camPending, timeouts, intervals, utterance, nreq, runs>>
  /\ UNCHANGED <<promptShot, promptGranted>>
  /\ UNCHANGED <<sceneVars, fastVars, mode>>

\* if (isNavigatingRef.current)
stillNavigating == isNavigatingRef

\* A catch block that sends the failed request again at once.
requestsRetried(r, ok) == IF ok THEN inflight \ {r} ELSE inflight

\* The requests in flight after r settled: neither the try nor the catch
\* block calls generateContent again.
requestsAfterResponse(r, ok) == inflight \ {r}

\* generateContent settled: the response text, or the catch block's message,
\* is shown and spoken if the flag is set.
responseArrives(r, ok) ==
  /\ r \in inflight
  /\ inflight' = requestsAfterResponse(r, ok)
  /\ IF stillNavigating
     THEN LET msg == [text |-> IF ok THEN "response"
                                ELSE "Sorry, I couldn't get the next instruction.",
                      req |-> r.id]
          IN /\ instruction' = MapsSet(instruction, msg)
             /\ speak(msg)
     ELSE UNCHANGED <<instruction, utterance>>
  /\ UNCHANGED <<mapsMounted, destination, isNavigating, isNavigatingRef,
                 currentLocation, mapsError, isLoading, locationPermission,
                 intervalRef, watching, oneShot, permListener, videoSrc,
                 camPending, timeouts, intervals, encoding, nreq,
                 runs>>
  /\ UNCHANGED <<promptShot, promptGranted>>
  /\ UNCHANGED <<sceneVars, fastVars, mode>>

\* ------------------------------------------------------ stop and back
\* The Stop button is shown while isNavigating.
handleStopNavigation ==
  /\ navigationScreen(mapsMounted, isLoading, locationPermission)
  /\ isNavigating
  /\ isNavigating' = FALSE
  /\ isNavigatingRef' = FALSE
  /\ instruction' = Text("Navigation stopped. Enter a destination to begin again.")
  /\ mapsCleanup
  /\ UNCHANGED <<mapsMounted, destination, currentLocation, mapsError,
                 isLoading, locationPermission, watching, oneShot, permListener,
                 camPending, timeouts, encoding, inflight,
                 nreq, runs>>
  /\ rendered(cleanupVideoSrc)
  /\ UNCHANGED <<promptShot, promptGranted>>
  /\ UNCHANGED <<sceneVars, fastVars, mode>>

\* The back button (on the prompt, denied and navigation screens): cleanup,
\* then setMode(HOME) unmounts the component; the location effect's cleanup
\* clears the watch.
handleBack ==
  /\ mapsMounted
  /\ ~isLoading
  /\ locationPermission # "checking"
  /\ mapsMounted' = FALSE
  /\ mapsCleanup
  /\ watching' = FALSE
  /\ UNCHANGED <<destination, isNavigating, isNavigatingRef, instruction,
                 currentLocation, mapsError, isLoading, locationPermission,
                 oneShot, permListener, camPending, timeouts, encoding,
                 inflight, nreq, runs>>
  /\ rendered(cleanupVideoSrc)
  /\ mode' = modeAfterBack
  /\ UNCHANGED <<promptShot, promptGranted>>
  /\ UNCHANGED <<sceneVars, fastVars>>

\* Before the mode is entered; isLoading and locationPermission as the mount
\* effects leave them.
InitMaps ==
  /\ mapsMounted = FALSE
  /\ destination = ""
  /\ isNavigating = FALSE
  /\ isNavigatingRef = FALSE
  /\ instruction = Text("Enter a destination to begin.")
  /\ currentLocation = NULL
  /\ mapsError = NULL
  /\ isLoading = FALSE
  /\ locationPermission = "checking"
  /\ intervalRef = NoTimer
  /\ watching = FALSE
  /\ oneShot = FALSE
  /\ promptShot = FALSE
  /\ promptGranted = FALSE
  /\ permListener = FALSE
  /\ videoSrc = NULL
  /\ camPending = {}
  /\ timeouts = {}
  /\ intervals = {}
  /\ encoding = {}
  /\ inflight = {}
  /\ utterance = Silence
  /\ nreq = 0
  /\ runs = 0

\* The camera, the timers, the requests and the buttons of a navigation.
NextNavigation ==
  \/ \E d \in Destinations : setDestination(d)
  \/ handleStartNavigation
  \/ \E c \in camPending, ok \in BOOLEAN : startCameraSettled(c, ok)
  \/ \E c \in timeouts : timeoutFires(c)
  \/ \E iv \in intervals : intervalTick(iv)
  \/ \E e \in encoding : frameEncoded(e)
  \/ \E r \in inflight, ok \in BOOLEAN : responseArrives(r, ok)
  \/ handleStopNavigation
  \/ handleBack

\* The permission query, the permission's changes and the position callbacks.
NextLocation ==
  \/ geolocationUnsupported
  \/ \E st \in PermissionStates : permissionQueried(st)
  \/ permissionQueryFailed
  \/ \E st \in PermissionStates : permissionChanged(st)
  \/ \E loc \in Locations : successCallback(loc)
  \/ errorCallback
  \/ requestLocationPermission
  \/ \E outcome \in {"success", "denied", "failed"} : promptSettled(outcome)

\* ============================================================ Fast Mode
\* The classes the detector reports.
Labels == {"dog", "cat", "bird"}

\* What model.detect resolves to: the classes of its predictions, in order.
Predictions == UNION {[1..n -> Labels] : n \in 0..MaxPreds}

NoStream == 0

\* A setState call of an unmounted component is dropped by React.
FastSet(old, new) == IF fastMounted THEN new ELSE old

\* [...new Set(labels)]: each label once, in the order of first occurrence.
RECURSIVE uniqueLabels(_)
uniqueLabels(labels) ==
  IF labels = <<>> THEN <<>>
  ELSE LET init == SubSeq(labels, 1, Len(labels) - 1)
           last == labels[Len(labels)]
           u    == uniqueLabels(init)
       IN IF \E i \in 1..Len(u) : u[i] = last THEN u ELSE Append(u, last)

\* Array.prototype.join: the elements with sep between neighbours, as the
\* sequence of the pieces of the resulting string.
RECURSIVE join(_, _)
join(a, sep) ==
  IF Len(a) = 0 THEN <<>>
  ELSE IF Len(a) = 1 THEN <<a[1]>>
  ELSE <<a[1], sep>> \o join(Tail(a), sep)

\* A pop() that removes nothing.
popRestKeepsLast(u) == u

\* The rest of the list after uniqueLabels.pop().
popRest(u) == SubSeq(u, 1, Len(u) - 1)

\* The summary handleCapture speaks, as the pieces of the template string.
summary(predictions) ==
  LET u == uniqueLabels(predictions)
  IN IF Len(predictions) = 0 THEN <<"I could not detect any objects.">>
     ELSE IF Len(u) = 1 THEN <<"I see a ", u[1], ".">>
     ELSE <<"I see ">> \o join(popRest(u), ", ")
            \o <<", and a ", u[Len(u)], ".">>

\* The <video> element is rendered while no captured image is shown; each
\* time it is rendered again it is a new element without srcObject.
fastVideoRefSet == fastMounted /\ ~capturedImage

\* window.speechSynthesis.cancel()
fastCancel == fastUtterance' = <<>>

\* The model-loading effect: cocoSsd.load() resolved.
loadResolved ==
  /\ loadPending
  /\ loadPending' = FALSE
  /\ model' = FastSet(model, TRUE)
  /\ isLoadingModel' = FastSet(isLoadingModel, FALSE)
  /\ UNCHANGED <<fastMounted, capturedImage, fastError, boxes, isDetecting,
                 fastCamPending, srcObject, liveStreams, nstreams, detections,
                 ncaptures, fastUtterance,
                 strayCams, strayDetections>>
  /\ UNCHANGED <<sceneVars, mapsVars, mode>>

\* cocoSsd.load() rejected: the catch and finally blocks.
loadRejected ==
  /\ loadPending
  /\ loadPending' = FALSE
  /\ fastError' = FastSet(fastError, "Could not load the object detection model. Please try again later.")
  /\ isLoadingModel' = FastSet(isLoadingModel, FALSE)
  /\ UNCHANGED <<fastMounted, capturedImage, boxes, model, isDetecting,
                 fastCamPending, srcObject, liveStreams, nstreams, detections,
                 ncaptures, fastUtterance,
                 strayCams, strayDetections>>
  /\ UNCHANGED <<sceneVars, mapsVars, mode>>

\* startCamera up to await getUserMedia: the stream of the current video
\* element, if there is one, is stopped.
startCameraStops == IF fastVideoRefSet /\ srcObject # NoStream THEN {srcObject} ELSE {}

\* getUserMedia of startCamera resolved: the stream is attached when the
\* video element exists.
fastCameraResolved ==
  /\ fastCamPending > 0
  /\ fastCamPending' = fastCamPending - 1
  /\ nstreams' = nstreams + 1
  /\ liveStreams' = liveStreams \cup {nstreams + 1}
  /\ srcObject' = IF fastVideoRefSet THEN nstreams + 1 ELSE srcObject
  /\ UNCHANGED <<fastMounted, capturedImage, fastError, boxes, model,
                 isLoadingModel, isDetecting, loadPending, detections,
                 ncaptures, fastUtterance,
                 strayCams, strayDetections>>
  /\ UNCHANGED <<sceneVars, mapsVars, mode>>

\* getUserMedia rejected: the catch block.
fastCameraRejected ==
  /\ fastCamPending > 0
  /\ fastCamPending' = fastCamPending - 1
  /\ fastError' = FastSet(fastError, "Could not access camera. Please check permissions.")
  /\ UNCHANGED <<fastMounted, capturedImage, boxes, model, isLoadingModel,
                 isDetecting, loadPending, srcObject, liveStreams, nstreams,
                 detections, ncaptures, fastUtterance,
                 strayCams, strayDetections>>
  /\ UNCHANGED <<sceneVars, mapsVars, mode>>

\* The isDetecting value of the render, as the capture button and
\* handleCapture read it.
isDetectingRead == isDetecting

\* The capture button is rendered while no captured image is shown, and
\* disabled while the model loads or a detection runs.
captureButtonEnabled == ~capturedImage /\ ~(isLoadingModel \/ isDetectingRead)

\* if (videoRef.current && canvasRef.current && model && !isDetecting)
captureGuard == fastVideoRefSet /\ model /\ ~isDetectingRead

\* A press on the capture button, and handleCapture up to await model.detect.
\* ctx: canvas.getContext('2d') returned a context.  Showing the captured
\* image removes the video element.
handleCapture(ctx) ==
  /\ fastMounted
  /\ ~capturedImage
  /\ ncaptures < MaxCaptures
  /\ IF captureButtonEnabled /\ captureGuard
     THEN /\ boxes' = <<>>
          /\ fastCancel
          /\ ncaptures' = ncaptures + 1
          /\ IF ctx
             THEN /\ isDetecting' = TRUE
                  /\ capturedImage' = TRUE
                  /\ srcObject' = NoStream
                  /\ detections' = detections + 1
             ELSE UNCHANGED <<isDetecting, capturedImage, srcObject, detections>>
     ELSE /\ UNCHANGED <<boxes, fastUtterance, ncaptures, isDetecting,
                         capturedImage, srcObject, detections>>
  /\ UNCHANGED <<fastMounted, fastError, model, isLoadingModel, loadPending,
                 fastCamPending, liveStreams, nstreams, strayCams,
                 strayDetections>>
  /\ UNCHANGED <<sceneVars, mapsVars, mode>>

\* A handler that leaves the flag set when the detection has settled.
detectingAfterSettleStuck == TRUE

\* setIsDetecting(false), the last statement of handleCapture.
detectingAfterSettle == FALSE

\* model.detect resolved: the summary is spoken, the boxes are set.
detectResolved(predictions) ==
  /\ detections > 0
  /\ detections' = detections - 1
  /\ fastUtterance' = summary(predictions)
  /\ boxes' = FastSet(boxes, predictions)
  /\ isDetecting' = FastSet(isDetecting, detectingAfterSettle)
  /\ UNCHANGED <<fastMounted, capturedImage, fastError, model, isLoadingModel,
                 loadPending, fastCamPending, srcObject, liveStreams, nstreams,
                 ncaptures, strayCams, strayDetections>>
  /\ UNCHANGED <<sceneVars, mapsVars, mode>>

\* model.detect rejected: the catch block.
detectRejected ==
  /\ detections > 0
  /\ detections' = detections - 1
  /\ fastError' = FastSet(fastError, "Object detection failed.")
  /\ isDetecting' = FastSet(isDetecting, detectingAfterSettle)
  /\ UNCHANGED <<fastMounted, capturedImage, boxes, model, isLoadingModel,
                 loadPending, fastCamPending, srcObject, liveStreams, nstreams,
                 ncaptures, fastUtterance, strayCams,
                 strayDetections>>
  /\ UNCHANGED <<sceneVars, mapsVars, mode>>

\* The continuations of a component instance that has been unmounted: its
\* setState calls are dropped and its videoRef is null.  A stream acquired
\* for it is attached to nothing; a summary is spoken all the same.
strayCameraResolved ==
  /\ strayCams > 0
  /\ strayCams' = strayCams - 1
  /\ nstreams' = nstreams + 1
  /\ liveStreams' = liveStreams \cup {nstreams + 1}
  /\ UNCHANGED <<fastMounted, capturedImage, fastError, boxes, model,
                 isLoadingModel, isDetecting, loadPending, fastCamPending,
                 srcObject, detections, strayDetections, ncaptures,
                 fastUtterance>>
  /\ UNCHANGED <<sceneVars, mapsVars, mode>>

strayCameraRejected ==
  /\ strayCams > 0
  /\ strayCams' = strayCams - 1
  /\ UNCHANGED <<fastMounted, capturedImage, fastError, boxes, model,
                 isLoadingModel, isDetecting, loadPending, fastCamPending,
                 srcObject, liveStreams, nstreams, detections, strayDetections,
                 ncaptures, fastUtterance>>
  /\ UNCHANGED <<sceneVars, mapsVars, mode>>

strayDetectResolved(predictions) ==
  /\ strayDetections > 0
  /\ strayDetections' = strayDetections - 1
  /\ fastUtterance' = summary(predictions)
  /\ UNCHANGED <<fastMounted, capturedImage, fastError, boxes, model,
                 isLoadingModel, isDetecting, loadPending, fastCamPending,
                 strayCams, srcObject, liveStreams, nstreams, detections,
                 ncaptures>>
  /\ UNCHANGED <<sceneVars, mapsVars, mode>>

strayDetectRejected ==
  /\ strayDetections > 0
  /\ strayDetections' = strayDetections - 1
  /\ UNCHANGED <<fastMounted, capturedImage, fastError, boxes, model,
                 isLoadingModel, isDetecting, loadPending, fastCamPending,
                 strayCams, srcObject, liveStreams, nstreams, detections,
                 ncaptures, fastUtterance>>
  /\ UNCHANGED <<sceneVars, mapsVars, mode>>

\* The boxes after handleReset.
resetBoxes == <<>>

\* The Capture Again button, rendered while the captured image is shown.
handleReset ==
  /\ fastMounted
  /\ capturedImage
  /\ nstreams + fastCamPending + strayCams < MaxStreams
  /\ fastCancel
  /\ capturedImage' = FALSE
  /\ boxes' = resetBoxes
  /\ liveStreams' = liveStreams \ startCameraStops
  /\ fastCamPending' = fastCamPending + 1
  /\ UNCHANGED <<fastMounted, fastError, model, isLoadingModel, isDetecting,
                 loadPending, srcObject, nstreams, detections, ncaptures, strayCams, strayDetections>>
  /\ UNCHANGED <<sceneVars, mapsVars, mode>>

\* The back button: setMode(HOME) unmounts the component and the effect
\* cleanup runs.  refSeen: videoRef.current still names the video element
\* when the cleanup runs, which depends on the React version (a passive
\* effect's cleanup runs after the refs of the removed elements are cleared
\* from React 17 on).  The camera and detection calls the instance awaits
\* stay pending; its model load can only end in dropped setState calls.
fastBack(refSeen) ==
  /\ fastMounted
  /\ mode' = modeAfterBack
  /\ fastMounted' = FALSE
  /\ liveStreams' = IF refSeen THEN liveStreams \ startCameraStops ELSE liveStreams
  /\ srcObject' = NoStream
  /\ fastCancel
  /\ strayCams' = strayCams + fastCamPending
  /\ fastCamPending' = 0
  /\ strayDetections' = strayDetections + detections
  /\ detections' = 0
  /\ loadPending' = FALSE
  /\ UNCHANGED <<capturedImage, fastError, boxes, model, isLoadingModel,
                 isDetecting, nstreams, ncaptures>>
  /\ UNCHANGED <<sceneVars, mapsVars>>

\* A new FastMode instance after its mount effects: the model loads (or the
\* cocoSsd script is missing and the catch and finally blocks have run),
\* startCamera awaits getUserMedia.
fastMount(cocoSsd) ==
  /\ nstreams + fastCamPending + strayCams < MaxStreams
  /\ fastMounted' = TRUE
  /\ capturedImage' = FALSE
  /\ boxes' = <<>>
  /\ model' = FALSE
  /\ isDetecting' = FALSE
  /\ loadPending' = cocoSsd
  /\ isLoadingModel' = cocoSsd
  /\ fastError' = IF cocoSsd THEN NULL
                  ELSE "Could not load the object detection model. Please try again later."
  /\ fastCamPending' = 1
  /\ srcObject' = NoStream
  /\ UNCHANGED <<strayCams, liveStreams, nstreams, detections, strayDetections,
                 ncaptures, fastUtterance>>

\* Before the mode is entered.
InitFast ==
  /\ fastMounted = FALSE
  /\ capturedImage = FALSE
  /\ boxes = <<>>
  /\ model = FALSE
  /\ isDetecting = FALSE
  /\ loadPending = FALSE
  /\ isLoadingModel = TRUE
  /\ fastError = NULL
  /\ fastCamPending = 0
  /\ strayCams = 0
  /\ srcObject = NoStream
  /\ liveStreams = {}
  /\ nstreams = 0
  /\ detections = 0
  /\ strayDetections = 0
  /\ ncaptures = 0
  /\ fastUtterance = <<>>

\* ================================================================= App
\* A new SceneDescriptorMode instance after its mount effect:
\* startCameraAndMic awaits getUserMedia.  The model follows the first
\* instance of the component.
sceneMount ==
  /\ gum = "none"
  /\ mounted' = TRUE
  /\ gum' = "pending"
  /\ UNCHANGED <<sessionState, sceneError, transcription, refs,
                 nextAudioStartTime, audioSources, tracksLive, conn, errored,
                 closeRequested, clock, nrecv, pending, sources, playLog,
                 released, captureVars>>

\* A new MapsMode instance after its mount effects: checkLocationPermission
\* runs.  The model follows the first instance of the component.
mapsMount ==
  /\ locationPermission = "checking"
  /\ mapsMounted' = TRUE
  /\ UNCHANGED <<destination, isNavigating, isNavigatingRef, instruction,
                 currentLocation, mapsError, isLoading, locationPermission,
                 intervalRef, watching, oneShot, promptShot, promptGranted,
                 permListener,
                 videoSrc, camPending, timeouts, intervals, encoding, inflight,
                 utterance, nreq, runs>>

\* A button of the home screen: setMode(m), and the component of m mounts.
homeButton(m) ==
  /\ mode = "HOME"
  /\ mode' = m
  /\ CASE m = "FAST" ->
            (\E cocoSsd \in BOOLEAN : fastMount(cocoSsd)) /\ UNCHANGED <<sceneVars, mapsVars>>
       [] m = "SCENE_DESCRIPTOR" -> sceneMount /\ UNCHANGED <<mapsVars, fastVars>>
       [] m = "MAPS" -> mapsMount /\ UNCHANGED <<sceneVars, fastVars>>

InitApp == mode = "HOME"

NextFast ==
  \/ homeButton("FAST")
  \/ loadResolved
  \/ loadRejected
  \/ fastCameraResolved
  \/ fastCameraRejected
  \/ strayCameraResolved
  \/ strayCameraRejected
  \/ \E ctx \in BOOLEAN : handleCapture(ctx)
  \/ \E predictions \in Predictions : detectResolved(predictions)
  \/ detectRejected
  \/ \E predictions \in Predictions : strayDetectResolved(predictions)
  \/ strayDetectRejected
  \/ handleReset
  \/ \E refSeen \in BOOLEAN : fastBack(refSeen)

\* The camera, the session's life and its teardown.
NextLifecycle ==
  \/ homeButton("SCENE_DESCRIPTOR")
  \/ startCameraAndMicResolved
  \/ startCameraAndMicRejected
  \/ \E t \in ThrowPoints : startSession(t)
  \/ onopen
  \/ connectRejected
  \/ onerror
  \/ onclose
  \/ stopSession
  \/ sceneBack

\* The audio and frame capture that onopen wires.
NextCapture ==
  \/ audioProcessQueued
  \/ onaudioprocess
  \/ \E context \in BOOLEAN : frameTick(context)
  \/ \E blob \in BOOLEAN : blobReady(blob)
  \/ readerLoaded

\* Decoding, scheduling and the audio clock.
NextAudio ==
  \/ \E h \in pending : onmessageResumed(h)
  \/ \E i \in 1..MaxMsgs : sourceEnded(i)
  \/ clockAdvances

vars == <<sceneVars, mapsVars, fastVars, mode>>

\* The app starts on the home screen; a specification runs the component of
\* one mode and never enters the others.
Init == InitApp /\ InitScene /\ InitMaps /\ InitFast

\* The whole component.
SpecScene ==
  Init /\ [][NextLifecycle \/ (\E m \in Messages : onmessage(m)) \/ NextAudio]_vars

\* The session's life under messages that carry no audio: the audio path of
\* onmessage writes none of the variables the lifecycle actions read.
SpecSession ==
  Init /\ [][NextLifecycle \/ (\E m \in SilentMessages : onmessage(m))]_vars

\* getUserMedia and the connection attempt are eventually-settling calls.
getUserMediaSettles == startCameraAndMicResolved \/ startCameraAndMicRejected

connectSettles == onopen \/ onerror \/ connectRejected

\* The session's life, every device and network call settling.
SpecSessionSettling ==
  SpecSession /\ WF_vars(getUserMediaSettles) /\ WF_vars(connectSettles)

\* The session's life with the capture pipeline, no message arriving.
SpecCapture == Init /\ [][NextLifecycle \/ NextCapture]_vars

\* Playback while the component stays mounted, in a session whose start does
\* not throw and that ends by the stop button, an error or a close.
SpecPlayback ==
  Init /\ [][\/ homeButton("SCENE_DESCRIPTOR")
             \/ startCameraAndMicResolved
             \/ startSession("none")
             \/ onopen
             \/ onerror
             \/ onclose
             \/ stopSession
             \/ (\E m \in PlaybackMessages : onmessage(m))
             \/ NextAudio]_vars

\* The Fast Mode component.
SpecFast == Init /\ [][NextFast]_vars

\* model.detect is an eventually-settling call.
detectSettles ==
  (\E predictions \in Predictions : detectResolved(predictions)) \/ detectRejected

\* The Fast Mode component, every detection of the mounted instance settling.
SpecFastSettling == SpecFast /\ WF_vars(detectSettles)

\* The permission and location part of the Maps component, with the back
\* button.
SpecLocation == Init /\ [][homeButton("MAPS") \/ NextLocation \/ handleBack]_vars

\* The browser reports a permission allowed through the prompt to the
\* installed onchange listener, and a position request settles.
grantReported == promptGranted /\ permissionChanged("granted")

positionSettles == (\E loc \in Locations : successCallback(loc)) \/ errorCallback

\* The permission and location part, the browser's events being delivered.
SpecLocationSettling ==
  SpecLocation /\ WF_vars(grantReported) /\ WF_vars(positionSettles)

\* Permission, position, destination and the Start, Stop and back buttons,
\* up to the camera of a started navigation.
SpecStart ==
  Init /\ [][\/ homeButton("MAPS")
             \/ NextLocation
             \/ (\E d \in Destinations : setDestination(d))
             \/ handleStartNavigation
             \/ (\E c \in camPending, ok \in BOOLEAN : startCameraSettled(c, ok))
             \/ handleStopNavigation
             \/ handleBack]_vars

\* The whole Maps component.
SpecMaps == Init /\ [][homeButton("MAPS") \/ NextLocation \/ NextNavigation]_vars

\* Navigation once the permission query has answered granted, the
\* permission staying as it is.
SpecNavigation ==
  Init /\ [][\/ homeButton("MAPS")
             \/ permissionQueried("granted")
             \/ (\E loc \in Locations : successCallback(loc))
             \/ NextNavigation]_vars

\* The router with its three modes: the home and back buttons, and of each
\* component the steps that bring a timer, a response, a permission event
\* and the session events about.
SpecApp ==
  Init /\ [][\/ (\E m \in AppModes \ {"HOME"} : homeButton(m))
             \/ sceneBack
             \/ handleBack
             \/ fastBack(TRUE)
             \/ startCameraAndMicResolved
             \/ startSession("none")
             \/ onopen
             \/ onerror
             \/ onclose
             \/ permissionQueried("granted")
             \/ permissionChanged("denied")
             \/ successCallback("L1")
             \/ setDestination("A")
             \/ handleStartNavigation
             \/ (\E c \in camPending : startCameraSettled(c, TRUE))
             \/ (\E c \in timeouts : timeoutFires(c))
             \/ (\E e \in encoding : frameEncoded(e))
             \/ (\E r \in inflight : responseArrives(r, TRUE))
             \/ loadResolved
             \/ handleCapture(TRUE)
             \/ detectResolved(<<"dog">>)
             \/ strayDetectResolved(<<"dog">>)]_vars

\* ================================================================ claims
Starts == {i \in 1..Len(playLog) : playLog[i].kind = "start"}

\* C1: between two interruptions, the start times passed to source.start are
\* non-decreasing in the order the starts are issued, and each buffer's window
\* [start, start + duration) begins no earlier than the end of the window of
\* the buffer started just before it, for every interleaving of clock advances
\* and decode completions.
C1_WindowsSequential ==
  \A i \in Starts :
    (i + 1) \in Starts =>
      /\ playLog[i + 1].at >= playLog[i].at
      /\ playLog[i + 1].at >= playLog[i].at + playLog[i].dur

\* Two buffers started back to back, the later fragment's decode settling
\* first, after the audio clock has advanced.
C1_Witness ==
  \E i \in Starts :
    /\ (i + 1) \in Starts
    /\ playLog[i].id > playLog[i + 1].id
    /\ playLog[i + 1].clk > 0

\* The scheduling clock before the i-th logged event: the end of the buffer
\* scheduled just before, 0 at the session's start and after an interruption.
PrevEnd(i) == IF i = 1 THEN 0 ELSE playLog[i - 1].next

\* C2: a buffer's start time is max(end of the previously scheduled buffer,
\* audio-clock time at the moment start is issued), so never earlier than the
\* clock at that moment, and the next-start time afterwards is start + duration.
C2_StartIsMaxOfPrevEndAndClock ==
  \A i \in Starts :
    /\ playLog[i].at = Max(PrevEnd(i), playLog[i].clk)
    /\ playLog[i].at >= playLog[i].clk
    /\ playLog[i].next = playLog[i].at + playLog[i].dur

\* C3: buffers are started in the order their fragments were received.
C3_StartedInArrivalOrder ==
  \A i, j \in Starts : i < j => playLog[i].id < playLog[j].id

\* The step that handles an interruption signal.
InterruptionHandled ==
  /\ Len(playLog') > Len(playLog)
  /\ playLog'[Len(playLog')].kind = "interrupt"

\* C4: right after an interruption has been handled the set of sources is
\* empty, every source that was in it (the one the same handler had just
\* started included) is stopped, and the next-start time is 0.
C4_InterruptionClears ==
  [][InterruptionHandled =>
       /\ audioSources' = {}
       /\ nextAudioStartTime' = 0
       /\ \A i \in DOMAIN sources' :
            (i \in audioSources \/ i \notin DOMAIN sources) =>
              sources'[i].st = "stopped"]_vars

\* An interruption has been handled that stopped two sources of the set.
C4_Witness ==
  /\ Len(playLog) > 0
  /\ playLog[Len(playLog)].kind = "interrupt"
  /\ Cardinality({i \in DOMAIN sources : sources[i].st = "stopped"}) >= 2
  /\ audioSources = {}

\* C5: cleanup is idempotent.  From every reachable state a second cleanup
\* right after a first one performs no release and changes no cell, and after
\* the first one the frame timer, the media stream (its tracks stopped), the
\* audio processor, both audio contexts and the session handle are released;
\* the unmount cleanup, which the back button runs right after stopSession's,
\* has never released anything.
C5_CleanupIdempotent ==
  LET r1 == cleanupRefs(refs)
  IN /\ cleanupReleases(r1) = {}
     /\ cleanupRefs(r1) = r1
     /\ \A n \in RefNames : r1[n] \in {NULL, "closed"}
     /\ refs.mediaStreamRef = NULL => ~tracksLive
     /\ \A i \in 1..Len(released) :
          released[i].by = "unmount" =>
            /\ released[i].ops = {}
            /\ i > 1 /\ released[i - 1].by = "stopSession"

\* The back button pressed in an active session: stopSession's cleanup
\* released all six resources, the unmount's cleanup followed.
C5_Witness ==
  \E i \in 1..Len(released) :
    /\ i > 1
    /\ released[i].by = "unmount"
    /\ released[i - 1].ops = RefNames
    /\ \A n \in RefNames : refs[n] = NULL

\* C6: an onopen delivered after cleanup ran while the session was connecting
\* (cleanup has queued session.close() and the connection is not yet open)
\* creates no audio processor and no frame timer and does not make
\* sessionState active.
C6_LateOpenWiresNothing ==
  [][(conn = "connecting" /\ conn' = "open" /\ closeRequested) =>
       /\ refs'.scriptProcessorRef = NULL
       /\ refs'.frameIntervalRef = NULL
       /\ sessionState' # "active"]_vars

\* The connection opened after the back button was pressed while connecting.
C6_Witness ==
  /\ conn = "open"
  /\ closeRequested
  /\ ~mounted
  /\ sessionState = "connecting"
  /\ refs.scriptProcessorRef = NULL

\* The transitions the state machine of the specification lists.
ListedTransitions ==
  {<<"idle", "connecting">>, <<"connecting", "active">>,
   <<"connecting", "stopped">>, <<"connecting", "error">>,
   <<"active", "stopped">>, <<"active", "error">>}

\* C7 as stated: sessionState changes only along idle->connecting,
\* connecting->active, connecting->stopped, connecting->error, active->stopped
\* and active->error.
C7_OnlyListedTransitions ==
  [][sessionState' # sessionState =>
       <<sessionState, sessionState'>> \in ListedTransitions]_vars

\* C7 as amended: sessionState changes only along the listed transitions and
\* idle->error (camera or microphone refused, or start pressed before the
\* stream exists), error->connecting (start pressed again), error->stopped
\* (the close event after an error) and stopped->error (start pressed after
\* the teardown released the stream); active is entered only from connecting.
C7_Transitions ==
  [][sessionState' # sessionState =>
       <<sessionState, sessionState'>> \in
         ListedTransitions \cup
           {<<"idle", "error">>, <<"error", "connecting">>,
            <<"error", "stopped">>, <<"stopped", "error">>}]_vars

\* A session that went connecting, active, error and, on the close event,
\* stopped.
C7_Witness ==
  /\ sessionState = "stopped"
  /\ errored
  /\ conn = "closed"
  /\ mounted

\* C8: when the session reports a transport error, sessionState becomes error
\* with an error message set and everything is torn down; sessionState then
\* stays error until the mic button is pressed again (which alone can make it
\* connecting), and no connection is opened otherwise.
C8_ErrorIsTerminal ==
  [][/\ (~errored /\ errored' /\ mounted) =>
          /\ sessionState' = "error"
          /\ sceneError' # NULL
          /\ cleanupReleases(refs') = {}
     /\ (errored /\ sessionState = "error" /\ sessionState' # "error") =>
          sessionState' = "connecting"
     /\ (errored /\ conn' # conn) => conn' = "closed"]_vars

\* ---------------------------------------------------------------- C9
\* C9: a navigation response, or request failure, that arrives after
\* handleStopNavigation was called (the request having been made before that
\* call) changes neither the displayed instruction nor what is spoken.
C9_LateResponseIgnored ==
  [][\A r \in inflight :
       (r \notin inflight' /\ stops > r.stopsAt)
         => (instruction' = instruction /\ utterance' = utterance)]_vars

\* --------------------------------------------------------------- C10
\* C10: every request issued by the periodic timer carries the coordinates
\* of the latest position update received before it was issued, and, while
\* its run goes on, the destination of the input field, entered at start.
C10_TimerRequestCarriesLatest ==
  \A r \in inflight :
    r.via = "interval"
      => /\ r.loc = r.latest
         /\ (isNavigating /\ r.run = runs) => r.dest = destination

\* --------------------------------------------------------------- C11
\* The distinct labels of p in the order of their first occurrences.
C11_FirstAt(p, l) == CHOOSE i \in 1..Len(p) : p[i] = l /\ \A j \in 1..(i - 1) : p[j] # l
C11_LabelsOf(p) == {p[i] : i \in 1..Len(p)}
C11_Distinct(p) ==
  CHOOSE d \in [1..Cardinality(C11_LabelsOf(p)) -> C11_LabelsOf(p)] :
    /\ \A i, j \in DOMAIN d : i < j => C11_FirstAt(p, d[i]) < C11_FirstAt(p, d[j])

\* The labels a joined by ", ".
C11_Joined(a) ==
  [i \in 1..(2 * Len(a) - 1) |-> IF i % 2 = 1 THEN a[(i + 1) \div 2] ELSE ", "]

\* The summary the claim describes.
C11_Expected(p) ==
  LET d == C11_Distinct(p)
      n == Len(d)
  IN IF Len(p) = 0 THEN <<"I could not detect any objects.">>
     ELSE IF n = 1 THEN <<"I see a ", d[1], ".">>
     ELSE <<"I see ">> \o C11_Joined([i \in 1..(n - 1) |-> d[i]])
            \o <<", and a ", d[n], ".">>

\* C11: the summary spoken when a detection resolves is "I could not detect
\* any objects." for no prediction, "I see a X." for one distinct label X,
\* and "I see " + the distinct labels but the last joined by ", " +
\* ", and a " + the last + "." for two or more, the labels de-duplicated in
\* the order of their first occurrences.
C11_SummaryAsDescribed ==
  [][\A p \in Predictions : detectResolved(p) => fastUtterance' = C11_Expected(p)]_vars

\* The predictions dog, cat, dog have been summarised as "I see dog, and a cat."
C11_Witness ==
  /\ boxes = <<"dog", "cat", "dog">>
  /\ fastUtterance = <<"I see ", "dog", ", and a ", "cat", ".">>

\* --------------------------------------------------------------- C12
\* C12: at most one detection call is in flight at any time: while one is
\* pending no step, a press on the capture button included, starts another,
\* and a detection starts only in the step of a capture press.
C12_SingleDetection ==
  [][/\ detections' + strayDetections' <= 1
     /\ (detections' + strayDetections' > detections + strayDetections)
          => \E ctx \in BOOLEAN : handleCapture(ctx)]_vars

\* --------------------------------------------------------------- C13
\* C13: after handleReset the list of boxes is empty and stays empty until
\* the next capture, a detection in flight at the reset included.  The
\* captured image is shown from a capture to the next reset, so outside
\* that span the list is empty.
C13_BoxesEmptyAfterReset ==
  (fastMounted /\ ~capturedImage) => boxes = <<>>

\* --------------------------------------------------------------- C14
\* C14: when a newly acquired camera stream is attached, every stream
\* acquired earlier has had its tracks stopped: at most one un-stopped stream
\* exists at a time, the attached one if one is attached, and none is left
\* un-stopped once the mode has been left.
C14_OneLiveStream ==
  /\ Cardinality(liveStreams) <= 1
  /\ srcObject # NoStream => liveStreams \subseteq {srcObject}
  /\ ~fastMounted => liveStreams = {}

\* --------------------------------------------------------------- C15
\* C15: the state reached when the browser has no geolocation differs from
\* the state reached when the permission is denied.  Both show the denied
\* screen; the first is entered without a permission listener, the second
\* with one, and only the first shows the unsupported-browser message.
C15_DeniedStatesDistinct ==
  locationPermission = "denied" => (permListener <=> mapsError # unsupportedError)

\* The denied screen of a browser without geolocation is shown.
C15_Witness ==
  /\ mapsMounted
  /\ locationPermission = "denied"
  /\ ~isLoading
  /\ ~permListener
  /\ mapsError = unsupportedError

\* --------------------------------------------------------------- C16
\* A step in which the app calls getCurrentPosition or watchPosition.
C16_RequestIssued ==
  \/ ~watching /\ watching'
  \/ ~oneShot /\ oneShot'
  \/ ~promptShot /\ promptShot'

\* C16: a step that ends with the permission state denied issues no
\* geolocation request, and the state leaves denied only in a step of the
\* browser's permission-change event.
C16_DeniedNotRetried ==
  [][/\ locationPermission' = "denied" => ~C16_RequestIssued
     /\ (locationPermission = "denied" /\ locationPermission' # "denied")
          => \E st \in PermissionStates : permissionChanged(st)]_vars

\* The permission was granted, a position was received, and the permission
\* is now denied: the watch is cleared.
C16_Witness ==
  /\ mapsMounted
  /\ locationPermission = "denied"
  /\ currentLocation # NULL
  /\ ~watching

\* --------------------------------------------------------------- C17
\* C17: a failed navigation request leaves isNavigating and the timers as
\* they are and issues no request: the failed one leaves the requests in
\* flight, none joins them, and a request is only ever issued by a timer
\* (the first by the start timeout, the others by the interval's ticks).
C17_FailureKeepsNavigating ==
  [][/\ \A r \in inflight :
          responseArrives(r, FALSE)
            => /\ isNavigating' = isNavigating
               /\ isNavigatingRef' = isNavigatingRef
               /\ intervals' = intervals
               /\ intervalRef' = intervalRef
               /\ timeouts' = timeouts
               /\ encoding' = encoding
               /\ nreq' = nreq
               /\ inflight' = inflight \ {r}
     /\ nreq' > nreq
          => \/ \E c \in timeouts : timeoutFires(c)
             \/ \E iv \in intervals : intervalTick(iv)]_vars

\* The first request failed, navigation goes on, and the next tick of the
\* interval has issued the second request.
C17_Witness ==
  /\ isNavigating
  /\ isNavigatingRef
  /\ intervalRef # NoTimer
  /\ utterance = [text |-> "Sorry, I couldn't get the next instruction.", req |-> 1]
  /\ \E r \in inflight : r.id = 2 /\ r.via = "interval"

\* --------------------------------------------------------------- C18
\* An empty or whitespace-only destination.
C18_Blank(d) == d \in {"", " "}

\* C18: navigation becomes active only when the location permission is
\* granted, a location is known and the destination is not blank; a press
\* on Start Navigation with a blank destination or without a location sets
\* the error message, leaves isNavigating false, acquires no camera and
\* schedules no timer.
C18_StartNeedsLocationAndDestination ==
  [][/\ (~isNavigating /\ isNavigating')
          => /\ locationPermission = "granted"
             /\ currentLocation # NULL
             /\ ~C18_Blank(destination)
     /\ (handleStartNavigation /\ (C18_Blank(destination) \/ currentLocation = NULL))
          => /\ mapsError' = "Please enter a destination and enable location."
             /\ ~isNavigating'
             /\ ~isNavigatingRef'
             /\ camPending' = camPending
             /\ timeouts' = timeouts
             /\ intervals' = intervals]_vars

\* Start Navigation was pressed with a whitespace-only destination.
C18_Witness ==
  /\ mapsMounted
  /\ destination = " "
  /\ currentLocation # NULL
  /\ mapsError = "Please enter a destination and enable location."
  /\ ~isNavigating
  /\ camPending = {}
  /\ runs = 0

\* --------------------------------------------------------------- C19
\* The back button of the mode shown.
C19_BackButton ==
  \/ mode = "FAST" /\ \E refSeen \in BOOLEAN : fastBack(refSeen)
  \/ mode = "SCENE_DESCRIPTOR" /\ sceneBack
  \/ mode = "MAPS" /\ handleBack

\* C19: the mode starts as HOME, is always one of the four modes, and
\* changes only in the step of a home-screen button, from HOME to that
\* button's mode, or of the back button of the mode shown, to HOME: no
\* timer, response, permission event or session event changes it, and no
\* mode is followed by another mode other than HOME.
C19_ModeByNavigationOnly ==
  /\ mode = "HOME"
  /\ [](mode \in AppModes)
  /\ [][mode' # mode
          => \/ mode = "HOME" /\ mode' # "HOME" /\ homeButton(mode')
             \/ mode # "HOME" /\ mode' = "HOME" /\ C19_BackButton]_vars

\* Scene Descriptor was opened, a session was started and left with the back
\* button; Maps was opened from the home screen and a navigation response has
\* been spoken there.
C19_Witness ==
  /\ mode = "MAPS"
  /\ ~mounted
  /\ sessionState # "idle"
  /\ mapsMounted
  /\ utterance.text = "response"

\* --------------------------------------------------------------- C20
\* C20: the transcript is the concatenation, in arrival order, of the
\* transcript fragments received since the latest session start: a session
\* start empties it, a message with a fragment appends the fragment at its
\* end, and no other step changes it.
C20_TranscriptIsFragmentsSinceStart ==
  [][/\ ((\E t \in ThrowPoints : startSession(t)) /\ refs.mediaStreamRef # NULL)
          => transcription' = <<>>
     /\ \A m \in Messages :
          onmessage(m)
            => transcription' = IF m.text THEN transcription \o <<nrecv + 1>>
                                ELSE transcription
     /\ ~((\E t \in ThrowPoints : startSession(t)) \/ (\E m \in Messages : onmessage(m)))
          => transcription' = transcription]_vars

\* Two fragments were received in the session that is active.
C20_Witness ==
  /\ mounted
  /\ sessionState = "active"
  /\ transcription = <<1, 2>>

\* C21: audio chunks and video frames are sent only while the session is open
\* and no cleanup has run; once a cleanup has run (stop, error, close or
\* unmount) nothing more is sent, the capture callbacks that were pending at
\* that moment included.
C21_MediaOnlyWhileOpen ==
  [][/\ sent' # sent => (conn = "open" /\ released = <<>> /\ ~closeRequested)
     /\ released # <<>> => sent' = sent]_vars

\* A chunk or frame was sent, then cleanup ran, and a capture callback that
\* was pending at that moment has run since without sending.
C21_Witness ==
  /\ sent > 0
  /\ dropped > 0
  /\ released # <<>>
  /\ sessionState \in {"stopped", "error"}

\* C22: from sessionState stopped or error after a teardown, a press on the
\* mic button whose start does not throw starts a new session: the state
\* moves to connecting.
C22_MicRestarts ==
  [][(/\ sessionState \in {"stopped", "error"}
      /\ released # <<>>
      /\ startSession("none"))
       => sessionState' = "connecting"]_vars

\* C23: a failed detection sets the error message and clears isDetecting;
\* isDetecting is set only while a detection of the instance is pending, and
\* every accepted capture trigger eventually returns it to false (the instance
\* staying mounted), whether the detection resolves or rejects, so that the
\* guard of a later trigger passes again.
C23_DetectingEventuallyCleared ==
  /\ [][(detectRejected /\ fastMounted)
         => (fastError' = "Object detection failed." /\ ~isDetecting')]_vars
  /\ [](fastMounted /\ isDetecting => detections = 1)
  /\ (fastMounted /\ isDetecting) ~> (~isDetecting \/ ~fastMounted)

\* A second capture has been accepted after the first one's detection failed.
C23_Witness ==
  /\ fastMounted
  /\ fastError = "Object detection failed."
  /\ ncaptures = 2
  /\ isDetecting
  /\ detections = 1

\* C24: every session start that enters connecting eventually leaves
\* connecting while the user stays in the mode, and a connection attempt that
\* is rejected asynchronously ends in sessionState error with the message
\* 'Failed to initialize AI session.'.
C24_ConnectingEventuallyLeft ==
  /\ (mounted /\ sessionState = "connecting")
       ~> (sessionState # "connecting" \/ ~mounted)
  /\ [][(connectRejected /\ mounted)
         => (/\ sessionState' = "error"
             /\ sceneError' = "Failed to initialize AI session.")]_vars

\* C25: whenever sessionState is stopped or error, no frame timer is pending,
\* no audio processor is connected, both audio contexts are closed or unset
\* and no session handle is held.
C25_TornDownWhenStoppedOrError ==
  sessionState \in {"stopped", "error"} =>
    /\ refs.frameIntervalRef = NULL
    /\ refs.scriptProcessorRef = NULL
    /\ refs.inputAudioContextRef \in {NULL, "closed"}
    /\ refs.outputAudioContextRef \in {NULL, "closed"}
    /\ refs.sessionRef = NULL

\* C26: a stream that getUserMedia delivers after the component was
\* unmounted is still stopped: tracks live after the unmount eventually are
\* not live any more.
C26_LateStreamStopped ==
  (~mounted /\ tracksLive) ~> ~tracksLive

\* C27: at most one periodic request timer exists at any time, and once
\* navigation has been stopped or the mode left, neither a start timeout nor
\* a periodic timer is pending.
C27_OneTimerNoneAfterStop ==
  /\ Cardinality(intervals) <= 1
  /\ ~(mapsMounted /\ isNavigating) => (timeouts = {} /\ intervals = {})

\* A step of a stopped navigation other than the next Start press and the
\* arrival of a response.
C28_ContinuationAfterStop ==
  /\ mapsMounted
  /\ ~isNavigating
  /\ runs > 0
  /\ ~handleStartNavigation
  /\ ~(\E r \in inflight, ok \in BOOLEAN : responseArrives(r, ok))

\* C28: after handleStopNavigation the instruction text stays as the stop
\* left it and no speech is started until the next handleStartNavigation,
\* whichever continuation pending at stop time runs (responses aside).
C28_StoppedStaysQuiet ==
  [][C28_ContinuationAfterStop
       => /\ instruction' = instruction
          /\ instruction.text = "Navigation stopped. Enter a destination to begin again."
          /\ utterance' \in {utterance, Silence}]_vars

\* C29: the response to a request issued during an earlier run, before a
\* stop, changes neither the instruction nor the speech when it arrives
\* during a later run.
C29_EarlierRunResponseDropped ==
  [][\A r \in inflight :
       (/\ r \notin inflight'
        /\ isNavigating
        /\ r.run < runs
        /\ r.stopsAt < stops)
         => (instruction' = instruction /\ utterance' = utterance)]_vars

\* C30: once Maps mode has been left with the back button, a response that
\* arrives afterwards speaks nothing.
C30_SilentAfterBack ==
  [][\A r \in inflight :
       (r \notin inflight' /\ ~mapsMounted) => utterance' = utterance]_vars

\* C31: an audio fragment received before an interruption signal is never
\* started after that interruption has been handled: every start logged
\* after an interruption belongs to a message received after the
\* interrupting one.
C31_NoStartOfEarlierFragment ==
  \A i, j \in 1..Len(playLog) :
    (/\ i < j
     /\ playLog[i].kind = "interrupt"
     /\ playLog[j].kind = "start")
      => playLog[j].id > playLog[i].id

\* C32: after the user has granted location access through the Enable
\* Location prompt, the permission state eventually becomes granted and the
\* navigation screen is reached (the user staying in the mode and the
\* permission not being changed again), also when the permission query had
\* failed and the component fell back to prompt.
C32_GrantReachesNavigation ==
  (mapsMounted /\ promptGranted)
    ~> (\/ navigationScreen(mapsMounted, isLoading, locationPermission)
        \/ ~mapsMounted
        \/ ~promptGranted)

====
